---- MODULE Spec2Model ----
(***************************************************************************)
(* Model of the task mutation / dependency / history subsystem of the     *)
(* task management API (app/routers/tasks.py over app/models.py).         *)
(*                                                                         *)
(* The state is the committed content of the relational tables.  Every    *)
(* request runs in its own database session; a handler is one atomic      *)
(* action per transaction (per db.commit()), except                       *)
(* create_task_dependency, whose checks and insert are two steps because  *)
(* nothing in the schema makes them one (task_dependencies has no unique  *)
(* constraint on the pair).  Foreign keys declared in models.py are       *)
(* enforced by the store.                                                  *)
(*                                                                         *)
(* Not modelled: title, description and due_date (they take the same      *)
(* scalar branch of update_task as priority); the id, user_id and         *)
(* timestamp columns of a history row; the old_value / new_value text of  *)
(* the history rows of collections and of the creation snapshot.          *)
(***************************************************************************)
EXTENDS Integers, Sequences, FiniteSets, Bags

\* ---------------------------------------------------------------- bounds
MaxTasks == 2        \* task rows ever inserted
MaxDeps == 2         \* dependency rows ever inserted
MaxHistory == 3      \* a request that writes history starts only below this

\* ----------------------------------------------------------- users, enums
UserRole == {"admin", "manager", "member"}
TaskStatus == {"todo", "in_progress", "in_review", "completed", "blocked"}
TaskPriority == {"low", "medium", "high", "critical"}

\* The users table (maintained outside this subsystem): id -> role.
User == [u \in {1, 2, 3} |-> CASE u = 1 -> "admin" [] u = 2 -> "manager" [] OTHER -> "member"]
UserIds == DOMAIN User
\* An id that no row of the users table has.
MissingUser == CHOOSE n \in 1..9 : \A u \in UserIds : n > u

NULL == "null"
UtcNow == "utcnow"

\* Concurrent requests: at most one in flight per session.
Sessions == {"s1", "s2"}

\* ------------------------------------------------------------ input sets
StatusInputs == {"todo", "completed"}
AssigneeInputs == {<<>>, <<3>>, <<3, MissingUser>>}
TagInputs == {<<>>, <<"Urgent", "urgent">>, <<"URGENT", "bug">>}
TaskIdInputs == 1..(MaxTasks + 1)
DepIdInputs == 1..(MaxDeps + 1)
ParentInputs == {0, MaxTasks + 1}
CreatorInputs == {1, 3}

\* A partial update: `fields` are the fields the request sets
\* (model_dump(exclude_unset=True)); the value of an unset field is unused.
MkUpdate(fs, st, pr, a, tn) ==
    [fields |-> fs,
     status |-> IF "status" \in fs THEN st ELSE "todo",
     priority |-> IF "priority" \in fs THEN pr ELSE "medium",
     assignee_ids |-> IF "assignee_ids" \in fs THEN a ELSE <<>>,
     tag_names |-> IF "tag_names" \in fs THEN tn ELSE <<>>]

FieldSetInputs == {{"status"}, {"assignee_ids"}, {"status", "assignee_ids"}}

\* Updates of the status and of the assignees.
UpdateInputs ==
    {MkUpdate(fs, st, "high", a, <<>>) :
        fs \in FieldSetInputs, st \in StatusInputs, a \in AssigneeInputs \ {<<>>}}

\* Updates of the tags.
TagUpdateInputs == {MkUpdate({"tag_names"}, "todo", "high", <<>>, tn) : tn \in TagInputs}

\* The one update the dependency specification uses.
PriorityUpdate == MkUpdate({"priority"}, "todo", "high", <<>>, <<>>)

BulkIdInputs ==
    {<<a>> : a \in TaskIdInputs}
        \cup {<<p[1], p[2]>> : p \in {q \in TaskIdInputs \X TaskIdInputs : q[1] <= q[2]}}

\* ----------------------------------------------------------------- state
VARIABLES
    tasks,       \* tasks table: id -> row (with its assignee and tag associations)
    tags,        \* tags table: sequence of names, the index is the tag id
    deps,        \* task_dependencies table: set of rows
    history,     \* task_history table: bag of rows
    nextTaskId,  \* next primary key of tasks
    nextDepId,   \* next primary key of task_dependencies
    pc,          \* per session: where the request in flight stands
    local,       \* per session: what the request in flight holds
    resp         \* the last response sent

vars == <<tasks, tags, deps, history, nextTaskId, nextDepId, pc, local, resp>>
db == <<tasks, tags, deps, history, nextTaskId, nextDepId>>

TaskRows == DOMAIN tasks

SeqToSet(s) == {s[i] : i \in DOMAIN s}

\* str.lower() on the tag names in use.
Lower(name) ==
    CASE name = "Urgent" -> "urgent"
      [] name = "URGENT" -> "urgent"
      [] OTHER -> name

Response(op, code, detail, id) == [op |-> op, status |-> code, detail |-> detail, id |-> id]

\* ------------------------------------------------------------- helpers
TaskHistory(task_id, action, field_name, old_value, new_value) ==
    [task_id |-> task_id, action |-> action, field_name |-> field_name,
     old_value |-> old_value, new_value |-> new_value]

\* log_task_history: db.add of one row.
log_task_history(h, task_id, action, field_name, old_value, new_value) ==
    h (+) SetToBag({TaskHistory(task_id, action, field_name, old_value, new_value)})

\* db.query(Tag).filter(Tag.name == name).first(): the tag id, 0 for none.
TagByName(tt, name) ==
    IF \E i \in DOMAIN tt : tt[i] = name
    THEN CHOOSE i \in DOMAIN tt : tt[i] = name
    ELSE 0

\* get_or_create_tag, as the table it leaves and the tag id it returns.
get_or_create_tag(tt, tag_name) ==
    LET found == TagByName(tt, Lower(tag_name)) IN
    IF found # 0
    THEN [table |-> tt, id |-> found]
    ELSE [table |-> Append(tt, Lower(tag_name)), id |-> Len(tt) + 1]

\* for tag_name in names: tags.append(get_or_create_tag(db, tag_name)),
\* starting from the collection `sofar`.
RECURSIVE AppendTags(_, _, _)
AppendTags(tt, sofar, names) ==
    IF names = <<>>
    THEN [table |-> tt, tags |-> sofar]
    ELSE LET r == get_or_create_tag(tt, Head(names)) IN
         AppendTags(r.table, Append(sofar, r.id), Tail(names))

\* db.query(User).filter(User.id.in_(ids)).all()
UsersIn(ids) == {u \in UserIds : u \in SeqToSet(ids)}

\* Mutant of AssigneesMissing: the list is rejected only when no id resolves.
AssigneesNoneFound(ids) == UsersIn(ids) = {}

\* len(assignees) != len(ids)
AssigneesMissing(ids) == Cardinality(UsersIn(ids)) # Len(ids)

HistoryRoom == BagCardinality(history) < MaxHistory

Idle(s) == pc[s] = "idle"

NoLocal == [task_id |-> 0, blocking_task_id |-> 0]

\* --------------------------------------------------------------- Init
Init ==
    /\ tasks = <<>>
    /\ tags = <<>>
    /\ deps = {}
    /\ history = EmptyBag
    /\ nextTaskId = 1
    /\ nextDepId = 1
    /\ pc = [s \in Sessions |-> "idle"]
    /\ local = [s \in Sessions |-> NoLocal]
    /\ resp = Response("none", 0, "", 0)

\* ------------------------------------------------------------ create_task
\* Lines 49-81: validation, insert of the task row and its associations,
\* first commit.
create_task(s, current_user, st, pr, parent, aids, tnames) ==
    /\ Idle(s)
    /\ IF parent # 0 /\ parent \notin TaskRows
       THEN /\ resp' = Response("create", 404, "Parent task not found", 0)
            /\ UNCHANGED <<db, pc, local>>
       ELSE IF aids # <<>> /\ AssigneesMissing(aids)
       THEN /\ resp' = Response("create", 400, "One or more assignees not found", 0)
            /\ UNCHANGED <<db, pc, local>>
       ELSE /\ nextTaskId <= MaxTasks
            /\ LET r == AppendTags(tags, <<>>, tnames)
                   id == nextTaskId
                   row == [status |-> st, priority |-> pr, creator_id |-> current_user,
                           parent_task_id |-> parent, completed_at |-> NULL,
                           assignees |-> UsersIn(aids), tags |-> r.tags]
               IN /\ tasks' = [t \in TaskRows \cup {id} |-> IF t = id THEN row ELSE tasks[t]]
                  /\ tags' = r.table
                  /\ nextTaskId' = id + 1
                  /\ pc' = [pc EXCEPT ![s] = "create_log"]
                  /\ local' = [local EXCEPT ![s] = [task_id |-> id, blocking_task_id |-> 0]]
            /\ UNCHANGED <<deps, history, nextDepId, resp>>

\* Lines 83-98: the "created" history row, second commit, response.
create_task_log(s) ==
    /\ pc[s] = "create_log"
    /\ pc' = [pc EXCEPT ![s] = "idle"]
    /\ local' = [local EXCEPT ![s] = NoLocal]
    /\ IF local[s].task_id \in TaskRows
       THEN /\ history' = log_task_history(history, local[s].task_id, "created",
                                           "initial_state", NULL, NULL)
            /\ resp' = Response("create", 201, "", local[s].task_id)
       ELSE \* task_history.task_id references a row that is gone
            /\ resp' = Response("create", 500, "IntegrityError", 0)
            /\ UNCHANGED history
    /\ UNCHANGED <<tasks, tags, deps, nextTaskId, nextDepId>>

\* ------------------------------------------- update_task, bulk_update_tasks
\* The scalar branch for one field: compare, set, log, and stamp completed_at
\* when status becomes completed.  st is [row, history, tags].
SetScalar(st, t, action, field, value) ==
    IF st.row[field] # value
    THEN [st EXCEPT !.row = IF field = "status" /\ value = "completed"
                             THEN [@ EXCEPT ![field] = value, !.completed_at = UtcNow]
                             ELSE [@ EXCEPT ![field] = value],
                    !.history = log_task_history(@, t, action, field, st.row[field], value)]
    ELSE st

\* The assignee branch (after validation, where there is one).
SetAssignees(st, t, action, ids) ==
    [st EXCEPT !.row = [@ EXCEPT !.assignees = UsersIn(ids)],
               !.history = log_task_history(@, t, action, "assignees", NULL, NULL)]

\* The tag branch: tags.clear(), then one append per name.
SetTags(st, t, action, names) ==
    LET r == AppendTags(st.tags, <<>>, names) IN
    [row |-> [st.row EXCEPT !.tags = r.tags],
     tags |-> r.table,
     history |-> log_task_history(st.history, t, action, "tags", NULL, NULL)]

\* The loop over update_data.items() for one task, in field order.
ApplyFields(st, t, action, upd) ==
    LET s1 == IF "status" \in upd.fields
              THEN SetScalar(st, t, action, "status", upd.status) ELSE st
        s2 == IF "priority" \in upd.fields
              THEN SetScalar(s1, t, action, "priority", upd.priority) ELSE s1
        s3 == IF "assignee_ids" \in upd.fields
              THEN SetAssignees(s2, t, action, upd.assignee_ids) ELSE s2
    IN  IF "tag_names" \in upd.fields THEN SetTags(s3, t, action, upd.tag_names) ELSE s3

update_task(s, t, upd) ==
    /\ Idle(s)
    /\ UNCHANGED <<deps, nextTaskId, nextDepId, pc, local>>
    /\ IF t \notin TaskRows
       THEN /\ resp' = Response("update", 404, "Task not found", 0)
            /\ UNCHANGED <<tasks, tags, history>>
       ELSE IF "assignee_ids" \in upd.fields /\ AssigneesMissing(upd.assignee_ids)
       THEN \* raised inside the loop: the session closes without a commit
            /\ resp' = Response("update", 400, "One or more assignees not found", 0)
            /\ UNCHANGED <<tasks, tags, history>>
       ELSE /\ HistoryRoom
            /\ LET r == ApplyFields([row |-> tasks[t], tags |-> tags, history |-> history],
                                    t, "updated", upd)
               IN /\ tasks' = [tasks EXCEPT ![t] = r.row]
                  /\ tags' = r.tags
                  /\ history' = r.history
            /\ resp' = Response("update", 200, "", 0)

\* for task in tasks: ... over the ids still to do, in id order.
\* st is [tasks, tags, history].
RECURSIVE BulkApply(_, _, _)
BulkApply(st, ids, upd) ==
    IF ids = {}
    THEN st
    ELSE LET t == CHOOSE x \in ids : \A y \in ids : x <= y
             r == ApplyFields([row |-> st.tasks[t], tags |-> st.tags, history |-> st.history],
                              t, "bulk_updated", upd)
         IN BulkApply([tasks |-> [st.tasks EXCEPT ![t] = r.row], tags |-> r.tags,
                       history |-> r.history],
                      ids \ {t}, upd)

\* db.query(Task).filter(Task.id.in_(task_ids)).all(), as the ids found.
TasksIn(task_ids) == SeqToSet(task_ids) \cap TaskRows

\* Mutant of BulkTasksMissing: the batch is rejected only when no id resolves.
BulkNoneFound(task_ids) == TasksIn(task_ids) = {}

\* len(tasks) != len(bulk_update.task_ids)
BulkTasksMissing(task_ids) == Cardinality(TasksIn(task_ids)) # Len(task_ids)

bulk_update_tasks(s, task_ids, upd) ==
    /\ Idle(s)
    /\ UNCHANGED <<deps, nextTaskId, nextDepId, pc, local>>
    /\ IF BulkTasksMissing(task_ids)
       THEN /\ resp' = Response("bulk_update", 400, "One or more tasks not found", 0)
            /\ UNCHANGED <<tasks, tags, history>>
       ELSE /\ HistoryRoom
            /\ LET r == BulkApply([tasks |-> tasks, tags |-> tags, history |-> history],
                                  TasksIn(task_ids), upd)
               IN /\ tasks' = r.tasks
                  /\ tags' = r.tags
                  /\ history' = r.history
            /\ resp' = Response("bulk_update", 200, "", 0)

\* ------------------------------------------------------------- delete_task
\* Mutant of DeleteForbidden: `or` for `and`.
DeleteForbiddenEither(current_user, t) ==
    tasks[t].creator_id # current_user \/ User[current_user] \notin {"admin", "manager"}

\* creator_id != current_user.id and role not in ["admin", "manager"]
DeleteForbidden(current_user, t) ==
    tasks[t].creator_id # current_user /\ User[current_user] \notin {"admin", "manager"}

\* Mutant of HistoryWithout: the history relationship does not cascade.
HistoryKept(h, t) == h

\* The rows of `h` that do not belong to task t.
HistoryWithout(h, t) == [r \in {x \in DOMAIN h : x.task_id # t} |-> h[r]]

\* db.delete(db_task): the dependency rows of both relationships and the
\* history rows go with the task; subtasks lose their parent reference.
delete_task(s, current_user, t) ==
    /\ Idle(s)
    /\ UNCHANGED <<tags, nextTaskId, nextDepId, pc, local>>
    /\ IF t \notin TaskRows
       THEN /\ resp' = Response("delete", 404, "Task not found", 0)
            /\ UNCHANGED <<tasks, deps, history>>
       ELSE IF DeleteForbidden(current_user, t)
       THEN /\ resp' = Response("delete", 403, "Not authorized to delete this task", 0)
            /\ UNCHANGED <<tasks, deps, history>>
       ELSE /\ tasks' = [x \in TaskRows \ {t} |->
                            IF tasks[x].parent_task_id = t
                            THEN [tasks[x] EXCEPT !.parent_task_id = 0]
                            ELSE tasks[x]]
            /\ deps' = {d \in deps : d.blocking_task_id # t /\ d.blocked_task_id # t}
            /\ history' = HistoryWithout(history, t)
            /\ resp' = Response("delete", 204, "", 0)

\* ------------------------------------------------ task dependencies
\* Dependency inserts of requests in flight.
DepsInFlight == Cardinality({s \in Sessions : pc[s] = "dep_insert"})

\* Mutant of DependencyExists: the two columns compared the wrong way round.
DependencyExistsReversed(blocking_task_id, task_id) ==
    \E d \in deps : d.blocking_task_id = task_id /\ d.blocked_task_id = blocking_task_id

\* existing = db.query(TaskDependency).filter(...).first()
DependencyExists(blocking_task_id, task_id) ==
    \E d \in deps : d.blocking_task_id = blocking_task_id /\ d.blocked_task_id = task_id

\* Lines 399-417: the checks.  task_id is the blocked task.
create_task_dependency(s, task_id, blocking_task_id) ==
    /\ Idle(s)
    /\ UNCHANGED db
    /\ IF blocking_task_id \notin TaskRows \/ task_id \notin TaskRows
       THEN /\ resp' = Response("add_dependency", 404, "One or both tasks not found", 0)
            /\ UNCHANGED <<pc, local>>
       ELSE IF blocking_task_id = task_id
       THEN /\ resp' = Response("add_dependency", 400, "A task cannot depend on itself", 0)
            /\ UNCHANGED <<pc, local>>
       ELSE IF DependencyExists(blocking_task_id, task_id)
       THEN /\ resp' = Response("add_dependency", 400, "Dependency already exists", 0)
            /\ UNCHANGED <<pc, local>>
       ELSE /\ nextDepId + DepsInFlight <= MaxDeps
            /\ HistoryRoom
            /\ pc' = [pc EXCEPT ![s] = "dep_insert"]
            /\ local' = [local EXCEPT ![s] = [task_id |-> task_id,
                                              blocking_task_id |-> blocking_task_id]]
            /\ UNCHANGED resp

\* Lines 419-432: the insert of the edge and of its history row, commit.
create_task_dependency_commit(s) ==
    /\ pc[s] = "dep_insert"
    /\ pc' = [pc EXCEPT ![s] = "idle"]
    /\ local' = [local EXCEPT ![s] = NoLocal]
    /\ UNCHANGED <<tasks, tags, nextTaskId>>
    /\ IF local[s].task_id \in TaskRows /\ local[s].blocking_task_id \in TaskRows
       THEN /\ deps' = deps \cup {[id |-> nextDepId,
                                   blocking_task_id |-> local[s].blocking_task_id,
                                   blocked_task_id |-> local[s].task_id]}
            /\ nextDepId' = nextDepId + 1
            /\ history' = log_task_history(history, local[s].task_id, "dependency_added",
                                           "blocking_task", NULL, local[s].blocking_task_id)
            /\ resp' = Response("add_dependency", 201, "", 0)
       ELSE \* a foreign key references a task row that is gone
            /\ resp' = Response("add_dependency", 500, "IntegrityError", 0)
            /\ UNCHANGED <<deps, nextDepId, history>>

delete_task_dependency(s, dependency_id) ==
    /\ Idle(s)
    /\ UNCHANGED <<tasks, tags, nextTaskId, nextDepId, pc, local>>
    /\ IF \E d \in deps : d.id = dependency_id
       THEN LET dependency == CHOOSE d \in deps : d.id = dependency_id IN
            /\ HistoryRoom
            /\ history' = log_task_history(history, dependency.blocked_task_id,
                                           "dependency_removed", "blocking_task",
                                           dependency.blocking_task_id, NULL)
            /\ deps' = deps \ {dependency}
            /\ resp' = Response("remove_dependency", 204, "", 0)
       ELSE /\ resp' = Response("remove_dependency", 404, "Dependency not found", 0)
            /\ UNCHANGED <<deps, history>>

\* ------------------------------------------------------------------ Next
\* Tasks with their dependency edges and history: every handler, with the
\* task fields held to one scalar update.
Next ==
    \E s \in Sessions :
        \/ \E u \in CreatorInputs, parent \in ParentInputs :
                create_task(s, u, "todo", "medium", parent, <<>>, <<>>)
        \/ create_task_log(s)
        \/ \E t \in TaskIdInputs : update_task(s, t, PriorityUpdate)
        \/ \E u \in UserIds, t \in TaskIdInputs : delete_task(s, u, t)
        \/ \E a, b \in TaskIdInputs : create_task_dependency(s, a, b)
        \/ create_task_dependency_commit(s)
        \/ \E d \in DepIdInputs : delete_task_dependency(s, d)

Spec == Init /\ [][Next]_vars

\* Status, completion time and assignees under create, update, bulk update
\* and delete: one request at a time, on behalf of the member user.
NextFields ==
    \E s \in {"s1"} :
        \/ \E st \in StatusInputs, aids \in AssigneeInputs :
                create_task(s, 3, st, "medium", 0, aids, <<>>)
        \/ create_task_log(s)
        \/ \E t \in TaskIdInputs, upd \in UpdateInputs : update_task(s, t, upd)
        \/ \E ids \in BulkIdInputs, upd \in UpdateInputs : bulk_update_tasks(s, ids, upd)
        \/ \E t \in TaskIdInputs : delete_task(s, 3, t)

SpecFields == Init /\ [][NextFields]_vars

\* Tags under create, update, bulk update and delete: one request at a
\* time, on behalf of the member user.
NextTags ==
    \E s \in {"s1"} :
        \/ \E tnames \in TagInputs : create_task(s, 3, "todo", "medium", 0, <<>>, tnames)
        \/ create_task_log(s)
        \/ \E t \in TaskIdInputs, upd \in TagUpdateInputs : update_task(s, t, upd)
        \/ \E ids \in BulkIdInputs, upd \in TagUpdateInputs : bulk_update_tasks(s, ids, upd)
        \/ \E t \in TaskIdInputs : delete_task(s, 3, t)

SpecTags == Init /\ [][NextTags]_vars

\* ------------------------------------------------------------ filter_tasks
\* The filter dimensions this model carries; the due date, creation date,
\* search and overdue dimensions test columns that are not modelled.
FilterDims == {"status", "priority", "creator_ids", "assignee_ids", "tag_names",
               "has_subtasks", "parent_task_id"}

MaxDims == 2         \* dimensions one filter request sets

\* skip: int = 0, limit: int = 100
skip == 0
limit == 100

\* A TaskFilter body: `supplied` are the fields the request sets; the
\* logic_operator of a request that does not set it is the default "AND".
TaskFilter(fs, st, hs, op) ==
    [supplied |-> fs,
     status |-> IF "status" \in fs THEN st ELSE <<>>,
     priority |-> <<"medium">>,
     creator_ids |-> <<1>>,
     assignee_ids |-> <<3>>,
     tag_names |-> <<"URGENT">>,
     has_subtasks |-> "has_subtasks" \in fs /\ hs,
     parent_task_id |-> 1,
     logic_operator |-> IF "logic_operator" \in fs THEN op ELSE "AND"]

FilterInputs ==
    {TaskFilter(fs, st, hs, op) :
        fs \in {x \in SUBSET (FilterDims \cup {"logic_operator"}) :
                    Cardinality(x \cap FilterDims) <= MaxDims},
        st \in {<<>>, <<"todo">>}, hs \in BOOLEAN, op \in {"AND", "OR"}}

\* The dimensions for which the handler appends a condition (lines 142-207):
\* a list when it is set and not empty, has_subtasks when it is set,
\* parent_task_id when it is set and not 0 (the validator turns 0 into None).
Conditions(f) ==
    {d \in f.supplied \cap FilterDims :
        CASE d = "has_subtasks" -> TRUE
          [] d = "parent_task_id" -> f.parent_task_id # 0
          [] OTHER -> f[d] # <<>>}

\* The condition appended for dimension d, evaluated on the row of task t.
Condition(d, f, t) ==
    CASE d = "status" -> tasks[t].status \in SeqToSet(f.status)
      [] d = "priority" -> tasks[t].priority \in SeqToSet(f.priority)
      [] d = "creator_ids" -> tasks[t].creator_id \in SeqToSet(f.creator_ids)
      [] d = "assignee_ids" -> \E u \in tasks[t].assignees : u \in SeqToSet(f.assignee_ids)
      [] d = "tag_names" ->
            \E i \in DOMAIN tasks[t].tags :
                tags[tasks[t].tags[i]] \in {Lower(n) : n \in SeqToSet(f.tag_names)}
      [] d = "has_subtasks" ->
            IF f.has_subtasks
            THEN \* Task.id.in_(ids of the tasks whose parent_task_id is not null)
                 t \in {x \in TaskRows : tasks[x].parent_task_id # 0}
            ELSE tasks[t].parent_task_id = 0
      [] d = "parent_task_id" -> tasks[t].parent_task_id = f.parent_task_id

\* query.filter(and_(*conditions)) or query.filter(or_(*conditions)); no
\* filter when there is no condition.
Filtered(f) ==
    IF Conditions(f) = {}
    THEN TaskRows
    ELSE IF f.logic_operator = "AND"
    THEN {t \in TaskRows : \A d \in Conditions(f) : Condition(d, f, t)}
    ELSE {t \in TaskRows : \E d \in Conditions(f) : Condition(d, f, t)}

\* The ids of S in primary-key order.
RECURSIVE InIdOrder(_)
InIdOrder(S) ==
    IF S = {}
    THEN <<>>
    ELSE LET m == CHOOSE x \in S : \A y \in S : x <= y IN <<m>> \o InIdOrder(S \ {m})

\* query.offset(skip).limit(limit).all()
Page(rows) ==
    LET last == IF Len(rows) < skip + limit THEN Len(rows) ELSE skip + limit
    IN  SubSeq(rows, skip + 1, last)

filter_tasks(s, f) ==
    /\ Idle(s)
    /\ resp' = [op |-> "filter", status |-> 200, detail |-> "", id |-> 0,
                result |-> Page(InIdOrder(Filtered(f)))]
    /\ UNCHANGED <<db, pc, local>>

\* Tasks with a parent, a creator, a status, assignees and tags, and the
\* filter over them: one request at a time.
FilterParentInputs == {0, 1}
FilterAssigneeInputs == {<<>>, <<3>>}
FilterTagInputs == {<<>>, <<"URGENT", "bug">>}

NextFilter ==
    \E s \in {"s1"} :
        \/ \E u \in CreatorInputs, st \in StatusInputs, parent \in FilterParentInputs,
              aids \in FilterAssigneeInputs, tnames \in FilterTagInputs :
                create_task(s, u, st, "medium", parent, aids, tnames)
        \/ create_task_log(s)
        \/ \E t \in TaskIdInputs : delete_task(s, 1, t)
        \/ \E f \in FilterInputs : filter_tasks(s, f)

SpecFilter == Init /\ [][NextFilter]_vars

\* ================================================================ claims
\* The history rows of task t.
HistoryOf(t) == [r \in {x \in DOMAIN history : x.task_id = t} |-> history[r]]

\* The ids of tasks that were inserted and are gone: delete_task is the only
\* handler that removes a task row, and primary keys are not handed out twice.
DeletedTasks == {t \in 1..(nextTaskId - 1) : t \notin TaskRows}

\* C1: every mutation is one atomic transaction: no committed state holds a
\* task without its "created" history row, nor a dependency edge without its
\* "dependency_added" row.
C1_MutationsAtomic ==
    /\ \A t \in TaskRows : \E r \in DOMAIN history : r.task_id = t /\ r.action = "created"
    /\ \A d \in deps : \E r \in DOMAIN history :
            /\ r.task_id = d.blocked_task_id
            /\ r.action = "dependency_added"
            /\ r.new_value = d.blocking_task_id

\* C2: right after a successful create returns, the task it returned has
\* exactly one history row, and that row's action is "created".
C2_CreatedHistoryOnly ==
    (resp.op = "create" /\ resp.status = 201) =>
        /\ BagCardinality(HistoryOf(resp.id)) = 1
        /\ \A r \in DOMAIN HistoryOf(resp.id) : r.action = "created"

\* C3: a bulk update naming an id that resolves to no task fails and leaves
\* every task (fields, assignees, tags, completed_at) and every history row
\* as it was: a step that answers a bulk update either rejects it with
\* nothing changed, or every id of the request resolved.
C3_BulkAllOrNothing ==
    [][\/ resp'.op # "bulk_update"
       \/ (resp'.status = 400 /\ UNCHANGED <<tasks, tags, deps, history>>)
       \/ \A s \in Sessions, ids \in BulkIdInputs, upd \in UpdateInputs :
              bulk_update_tasks(s, ids, upd) => \A i \in DOMAIN ids : ids[i] \in TaskRows]_vars

\* A bulk update was rejected while a task with assignees and history exists.
C3_Witness ==
    /\ resp.op = "bulk_update"
    /\ resp.status = 400
    /\ \E t \in TaskRows : tasks[t].assignees # {} /\ BagCardinality(HistoryOf(t)) >= 2

\* C4: once a task is deleted, no dependency row has it as blocking or blocked
\* task and no history row references it, in the state the delete leaves and
\* in every later one.
C4_DeleteCascades ==
    \A t \in DeletedTasks :
        /\ \A d \in deps : d.blocking_task_id # t /\ d.blocked_task_id # t
        /\ \A r \in DOMAIN history : r.task_id # t

\* A delete succeeded after a dependency edge had been inserted, and a task
\* with history is left.
C4_Witness ==
    /\ resp.op = "delete"
    /\ resp.status = 204
    /\ DeletedTasks # {}
    /\ nextDepId > 1
    /\ history # EmptyBag

\* C5 as stated: adding an edge from a task to itself always fails with the
\* self-dependency error, adding an edge for a pair that has one always fails
\* with the duplicate error, and neither changes the edges or the history.
C5_AsStated ==
    [][/\ \A s \in Sessions, a \in TaskIdInputs :
              create_task_dependency(s, a, a)
                  => /\ resp'.status = 400
                     /\ resp'.detail = "A task cannot depend on itself"
                     /\ UNCHANGED <<deps, history>>
       /\ \A s \in Sessions, d \in deps :
              create_task_dependency(s, d.blocked_task_id, d.blocking_task_id)
                  => /\ resp'.status = 400
                     /\ resp'.detail = "Dependency already exists"
                     /\ UNCHANGED <<deps, history>>]_vars

\* C5, amended: adding an edge from a task to itself fails with the
\* self-dependency error when the task exists and with not-found when it does
\* not; adding an edge for a pair that has one when the request checks fails
\* with the duplicate error; none of these changes the edges or the history.
C5_SelfAndDuplicateRejected ==
    [][/\ \A s \in Sessions, a \in TaskIdInputs :
              create_task_dependency(s, a, a)
                  => /\ resp'.status = IF a \in TaskRows THEN 400 ELSE 404
                     /\ resp'.detail = IF a \in TaskRows
                                        THEN "A task cannot depend on itself"
                                        ELSE "One or both tasks not found"
                     /\ UNCHANGED <<deps, history>>
       /\ \A s \in Sessions, d \in deps :
              create_task_dependency(s, d.blocked_task_id, d.blocking_task_id)
                  => /\ resp'.status = 400
                     /\ resp'.detail = "Dependency already exists"
                     /\ UNCHANGED <<deps, history>>]_vars

\* A self-dependency was rejected while the graph holds an edge.
C5_Witness ==
    /\ resp.op = "add_dependency"
    /\ resp.detail = "A task cannot depend on itself"
    /\ deps # {}

\* C6: in every state, also under concurrent requests for the same pair, no
\* edge has blocking = blocked and no ordered pair has two edges.
C6_NoSelfNoDuplicateEdge ==
    /\ \A d \in deps : d.blocking_task_id # d.blocked_task_id
    /\ \A d1 \in deps, d2 \in deps :
          (d1.blocking_task_id = d2.blocking_task_id /\ d1.blocked_task_id = d2.blocked_task_id)
              => d1 = d2

\* C7: an update that sets status to completed leaves completed_at non-null;
\* an update of other fields only, on a task whose completed_at is null,
\* leaves it null.
C7_UpdateStampsCompletion ==
    [][\A s \in Sessions, t \in TaskIdInputs, upd \in UpdateInputs :
          (update_task(s, t, upd) /\ resp'.status = 200) =>
              /\ ("status" \in upd.fields /\ upd.status = "completed")
                    => tasks'[t].completed_at # NULL
              /\ ("status" \notin upd.fields /\ tasks[t].completed_at = NULL)
                    => tasks'[t].completed_at = NULL]_vars

\* C8: a task whose status is completed has a completed_at, and completed_at
\* is set only for a task whose status is or has been completed (it appears
\* only in a step that leaves the status completed).
C8_CompletedAtIffCompleted ==
    /\ [](\A t \in TaskRows : tasks[t].status = "completed" => tasks[t].completed_at # NULL)
    /\ [][\A t \in DOMAIN tasks' :
            tasks'[t].completed_at # NULL
                => \/ tasks'[t].status = "completed"
                   \/ (t \in TaskRows /\ tasks[t].completed_at # NULL)]_vars

C10_TagsNeverDuplicated ==
    /\ \A t \in TaskRows : \A i \in DOMAIN tasks[t].tags, j \in DOMAIN tasks[t].tags :
            tasks[t].tags[i] = tasks[t].tags[j] => i = j
    /\ \A i \in DOMAIN tags, j \in DOMAIN tags : Lower(tags[i]) = Lower(tags[j]) => i = j

\* The dimensions a filter request sets.
SuppliedDims(f) == f.supplied \cap FilterDims

\* Whether task t satisfies the condition of dimension d of filter f, as the
\* filter contract words it: membership for the sets, at least one assignee
\* or tag in the set (tags compared without case), for has_subtasks true the
\* task being the parent of some other task and for false the task having
\* no parent, and an exact match for the parent.
Satisfies(d, f, t) ==
    CASE d = "status" -> \E i \in DOMAIN f.status : f.status[i] = tasks[t].status
      [] d = "priority" -> \E i \in DOMAIN f.priority : f.priority[i] = tasks[t].priority
      [] d = "creator_ids" -> \E i \in DOMAIN f.creator_ids : f.creator_ids[i] = tasks[t].creator_id
      [] d = "assignee_ids" ->
            \E i \in DOMAIN f.assignee_ids : f.assignee_ids[i] \in tasks[t].assignees
      [] d = "tag_names" ->
            \E i \in DOMAIN f.tag_names, j \in DOMAIN tasks[t].tags :
                Lower(f.tag_names[i]) = Lower(tags[tasks[t].tags[j]])
      [] d = "has_subtasks" ->
            IF f.has_subtasks
            THEN \E c \in TaskRows \ {t} : tasks[c].parent_task_id = t
            ELSE tasks[t].parent_task_id = 0
      [] d = "parent_task_id" -> tasks[t].parent_task_id = f.parent_task_id

\* C11: for a filter that sets at least one dimension, the tasks returned are
\* exactly those that satisfy every dimension set when the operator is AND
\* (also when the operator is left out), and exactly those that satisfy at
\* least one dimension set when it is OR.
C11_FilterComposition ==
    [][\/ resp'.op # "filter"
       \/ \A s \in Sessions, f \in FilterInputs :
              (SuppliedDims(f) # {} /\ filter_tasks(s, f)) =>
                  SeqToSet(resp'.result) =
                      IF f.logic_operator = "AND"
                      THEN {t \in TaskRows : \A d \in SuppliedDims(f) : Satisfies(d, f, t)}
                      ELSE {t \in TaskRows : \E d \in SuppliedDims(f) : Satisfies(d, f, t)}]_vars

\* C12: a filter that sets has_subtasks = true and no other dimension
\* returns exactly the tasks that are the parent of at least one other task.
C12_HasSubtasksReturnsParents ==
    [][\/ resp'.op # "filter"
       \/ \A s \in Sessions, f \in FilterInputs :
              (SuppliedDims(f) = {"has_subtasks"} /\ f.has_subtasks /\ filter_tasks(s, f)) =>
                  SeqToSet(resp'.result) =
                      {t \in TaskRows : \E c \in TaskRows \ {t} : tasks[c].parent_task_id = t}]_vars

\* An assignee id list with an id that no user has.
HasUnknownUser(ids) == \E i \in DOMAIN ids : ids[i] \notin UserIds

\* C13: create and update reject an assignee id list with an id of no
\* existing user as a whole: the answer is the assignee error (400), create
\* inserts no task, and update leaves the task's fields, the assignees, the
\* tags and the history as they were, also for the fields the request sets
\* before the assignees.
C13_InvalidAssigneeRejected ==
    [][/\ \A s \in Sessions, st \in StatusInputs, aids \in AssigneeInputs :
              (HasUnknownUser(aids) /\ create_task(s, 3, st, "medium", 0, aids, <<>>))
                  => /\ resp'.op = "create"
                     /\ resp'.status = 400
                     /\ resp'.detail = "One or more assignees not found"
                     /\ UNCHANGED <<db, pc>>
       /\ \A s \in Sessions, t \in TaskRows, upd \in UpdateInputs :
              ("assignee_ids" \in upd.fields /\ HasUnknownUser(upd.assignee_ids)
                  /\ update_task(s, t, upd))
                  => /\ resp'.op = "update"
                     /\ resp'.status = 400
                     /\ resp'.detail = "One or more assignees not found"
                     /\ UNCHANGED <<tasks, tags, history>>]_vars

\* An update was rejected for its assignees while a task exists whose status
\* the same request could have changed.
C13_Witness ==
    /\ resp.op = "update"
    /\ resp.status = 400
    /\ resp.detail = "One or more assignees not found"
    /\ \E t \in TaskRows : tasks[t].status = "todo" /\ tasks[t].completed_at = NULL

\* C14: a bulk update treats the assignees as update does: with an id of no
\* existing user in the list it answers the assignee error (400) and changes
\* no task, and with a list of existing users it leaves every target task
\* with exactly those assignees.
C14_BulkValidatesAssignees ==
    [][\/ resp'.op # "bulk_update"
       \/ resp'.detail = "One or more tasks not found"
       \/ \A s \in Sessions, ids \in BulkIdInputs, upd \in UpdateInputs :
              ("assignee_ids" \in upd.fields /\ bulk_update_tasks(s, ids, upd)) =>
                  IF HasUnknownUser(upd.assignee_ids)
                  THEN /\ resp'.status = 400
                       /\ resp'.detail = "One or more assignees not found"
                       /\ UNCHANGED <<tasks, tags, history>>
                  ELSE \A i \in DOMAIN ids :
                          tasks'[ids[i]].assignees = SeqToSet(upd.assignee_ids)]_vars

\* The number of history rows of task t with the given action.
HistoryCount(t, action) ==
    BagCardinality([r \in {x \in DOMAIN history : x.task_id = t /\ x.action = action}
                        |-> history[r]])

\* C15: for every existing task, the "dependency_added" rows of its history
\* minus the "dependency_removed" rows are as many as the dependency edges
\* that block it.
C15_DependencyTrailMatchesEdges ==
    \A t \in TaskRows :
        HistoryCount(t, "dependency_added") - HistoryCount(t, "dependency_removed")
            = Cardinality({d \in deps : d.blocked_task_id = t})

====
